---- MODULE Spec2Model ----
(***************************************************************************)
(* Model of src/src/asset_conv.cpp (namespace gif643 and main).            *)
(*                                                                         *)
(* One Driver thread (main) reads lines, parses them and pushes TaskDefs   *)
(* on Processor::task_queue_; n_threads worker threads run                 *)
(* Processor::processQueue, which pops a TaskDef, asks                     *)
(* fileExistsInSubfolder whether the source stem is already in             *)
(* output/cache.txt and, if not, runs a TaskRunner on it.                  *)
(*                                                                         *)
(* Strings are sequences of one-character strings.  Every access to a     *)
(* shared object is one step, so the interleavings of the threads are the  *)
(* interleavings of these steps.                                           *)
(*                                                                         *)
(* std::queue<TaskDef> (a std::deque) is modelled by what its cursors do:  *)
(* buf holds every element push() has constructed, in order (its length   *)
(* is the finish cursor) and start counts the pop() calls (the start       *)
(* cursor).  empty() compares the cursors, front() reads the slot at the   *)
(* start cursor and pop() advances it, also when the queue is empty: that  *)
(* is undefined behaviour, the slot read was never constructed and its     *)
(* value is any of UninitDefs.  Abnormal termination of the process, one   *)
(* more possible outcome, stops every thread: it is a prefix of a          *)
(* behaviour of this model, so the safety properties cover it.             *)
(***************************************************************************)
EXTENDS Integers, Sequences, FiniteSets, TLC

(***************************************************************************)
(* Bounds of the model.                                                    *)
(***************************************************************************)
MaxThreads == 2      \* largest worker count given on the command line
MaxLines == 2        \* input lines that are queued, over all runs
MaxRuns == 2         \* runs of the program over the same output directory
MaxLineLen == 4      \* length of the lines of the exhaustive parser check

(***************************************************************************)
(* Program constants.                                                      *)
(***************************************************************************)
NUM_THREADS == 1

Workers == 1..MaxThreads

Min(a, b) == IF a < b THEN a ELSE b

Range(s) == {s[i] : i \in 1..Len(s)}

(***************************************************************************)
(* Characters and input lines.                                             *)
(***************************************************************************)
NL == "\n"

Digits == {"1", "2"}

DigitVal(c) == IF c = "1" THEN 1 ELSE 2

\* The lines the Driver reads in the concurrent specification:
\*   a.s;x;1
\*   d/a.t;y;2;q   the same stem, another directory, extension, destination
\*                 and size, and a trailing fourth field
\*   b             one field
\*   the empty line
Lines ==
    { <<"a", ".", "s", ";", "x", ";", "1">>,
      <<"d", "/", "a", ".", "t", ";", "y", ";", "2", ";", "q">>,
      <<"b">>,
      <<>> }

ParseAlphabet == {"a", ";", "1", "-"}

RECURSIVE StringsOfLen(_)
StringsOfLen(n) ==
    IF n = 0 THEN {<<>>}
    ELSE {Append(s, c) : s \in StringsOfLen(n - 1), c \in ParseAlphabet}

\* Every line of at most MaxLineLen characters of ParseAlphabet.
AllLines == UNION {StringsOfLen(n) : n \in 0..MaxLineLen}

(***************************************************************************)
(* Processor::parse                                                        *)
(***************************************************************************)
\* std::string::find(";"): the first position of ";" (1-based), 0 for npos.
Find(line) ==
    IF \E i \in 1..Len(line) : line[i] = ";"
    THEN CHOOSE i \in 1..Len(line) :
            /\ line[i] = ";"
            /\ \A j \in 1..(i - 1) : line[j] # ";"
    ELSE 0

\* The tokenizer loop: push substr(0, pos), erase(0, pos + 1), and at the end
\* push what is left.
RECURSIVE Tokenize(_)
Tokenize(line) ==
    LET pos == Find(line)
    IN IF pos = 0
       THEN <<line>>
       ELSE <<SubSeq(line, 1, pos - 1)>> \o Tokenize(SubSeq(line, pos + 1, Len(line)))

\* The digits at the head of s, as a number (acc is the value read so far).
RECURSIVE AtoiDigits(_, _)
AtoiDigits(s, acc) ==
    IF s = <<>> \/ Head(s) \notin Digits
    THEN acc
    ELSE AtoiDigits(Tail(s), 10 * acc + DigitVal(Head(s)))

\* std::atoi: leading blanks, an optional sign, then digits up to the first
\* other character; 0 when there is no digit.
RECURSIVE atoi(_)
atoi(s) ==
    IF s = <<>> THEN 0
    ELSE IF Head(s) = " " THEN atoi(Tail(s))
    ELSE IF Head(s) = "-" THEN 0 - AtoiDigits(Tail(s), 0)
    ELSE IF Head(s) = "+" THEN AtoiDigits(Tail(s), 0)
    ELSE AtoiDigits(s, 0)

\* Mutant: the rejection tests tokens.size() < 2.
MinTokens_Two == 3 - 1

\* tokens.size() < 3 is the rejection.
MinTokens == 3

\* parse's return value.
parse(line) == Len(Tokenize(line)) >= MinTokens

\* Mutant: the width is read from the last token instead of the third.
parseDef_LastToken(line) ==
    LET tokens == Tokenize(line)
    IN [fname_in |-> tokens[1], fname_out |-> tokens[2],
        size |-> atoi(tokens[Len(tokens)])]

\* The TaskDef parse fills when it returns true.
parseDef(line) ==
    LET tokens == Tokenize(line)
    IN [fname_in |-> tokens[1], fname_out |-> tokens[2], size |-> atoi(tokens[3])]

(***************************************************************************)
(* std::filesystem::path::stem and the ledger file                         *)
(***************************************************************************)
\* The last position of character c in s, 0 if there is none.
LastPos(s, c) ==
    IF \E i \in 1..Len(s) : s[i] = c
    THEN CHOOSE i \in 1..Len(s) :
            /\ s[i] = c
            /\ \A j \in (i + 1)..Len(s) : s[j] # c
    ELSE 0

\* fs::path(p).filename(): what follows the last directory separator.
Filename(p) == SubSeq(p, LastPos(p, "/") + 1, Len(p))

\* fs::path(base_name).stem(): the filename without its last extension; a
\* filename that is ".", ".." or starts with its only period is its own stem.
\* Mutant: the extension is kept.
Stem_KeepsExtension(p) == Filename(p)

Stem(p) ==
    LET f == Filename(p)
        dot == LastPos(f, ".")
    IN IF f = <<".">> \/ f = <<".", ".">> \/ dot <= 1
       THEN f
       ELSE SubSeq(f, 1, dot - 1)

\* std::getline over the whole file: the lines of text, each ended by NL;
\* characters after the last NL make one more line.
RECURSIVE FileLines(_)
FileLines(text) ==
    IF text = <<>> THEN <<>>
    ELSE LET nl == IF \E i \in 1..Len(text) : text[i] = NL
                   THEN CHOOSE i \in 1..Len(text) :
                           /\ text[i] = NL
                           /\ \A j \in 1..(i - 1) : text[j] # NL
                   ELSE 0
         IN IF nl = 0
            THEN <<text>>
            ELSE <<SubSeq(text, 1, nl - 1)>> \o FileLines(SubSeq(text, nl + 1, Len(text)))

\* Mutant: the scan stops after the first line.
MatchFound_FirstLineOnly(text, stem) ==
    Len(FileLines(text)) > 0 /\ FileLines(text)[1] = stem

\* The scan loop of fileExistsInSubfolder: some line equals stem.
MatchFound(text, stem) == \E i \in 1..Len(FileLines(text)) : FileLines(text)[i] = stem

\* Mutant: the stem is written without its newline.
AppendLine_NoNewline(text, stem) == text \o stem

\* Mutant: the stem is written at the head of the file.
AppendLine_Prepend(text, stem) == stem \o <<NL>> \o text

\* outfile << stem << '\n' on a file opened with std::ios::app.
AppendLine(text, stem) == text \o stem \o <<NL>>

(***************************************************************************)
(* TaskDef and the values an unconstructed queue slot can hold             *)
(***************************************************************************)
\* What zeroed memory reads as: two empty strings and size 0.
GarbageDef == [fname_in |-> <<>>, fname_out |-> <<>>, size |-> 0]

\* Bytes that happen to look like a request.
StaleDef == [fname_in |-> <<"a", ".", "s">>, fname_out |-> <<"x">>, size |-> 1]

\* front() on a slot that push() never constructed reads whatever the heap
\* holds there: zeroes, or other bytes.
UninitDefs == {GarbageDef, StaleDef}

\* The stems the dedup ledger can be asked about.
AllStems == {Stem(d.fname_in) : d \in UninitDefs \cup {parseDef(l) : l \in {x \in Lines : parse(x)}}}

\* The source file that load_fails makes unreadable.
MissingSource == <<"a", ".", "s">>

\* The failure of the environment in a behaviour, if any: of the file system
\* under fileExistsInSubfolder, or under TaskRunner of a source file
\* (MissingSource cannot be read and parsed) or of the PNG encoder.
Faults ==
    {"none", "no_dir", "create_fails", "read_fails", "append_fails",
     "load_fails", "encode_fails"}

(***************************************************************************)
(* State                                                                   *)
(***************************************************************************)
VARIABLES
    argv_threads,           \* atoi(argv[1]) of this run
    main_pc,                \* where main is
    nqueued,                \* history: requests queued so far, over all runs
    line_org,               \* parseAndQueue's argument (<<>> outside the call)
    join_idx,               \* ~Processor: the thread being joined
    n_threads,              \* size of queue_threads_ (0 before construction)
    task_queue_,            \* [buf, start]: the deque's slots and start cursor
    queu_updated_signal,    \* counting semaphore, initially 0
    take_from_queu_signal,  \* binary semaphore, initially 1
    queu_mutex,             \* "free" or "main"
    cache_mutex_,           \* 0 (free) or the worker holding it
    should_run_,            \* the running flag
    wpc,                    \* where each worker is in processQueue
    task_def,               \* each worker's local task_def (GarbageDef while
                            \*          it is out of scope)
    fault,                  \* the failure of the environment, if any
    cache_exists,           \* output/cache.txt exists
    cache_file,             \* the text of output/cache.txt
    outputs,                \* the fname_out files written so far
    dequeued,               \* history: the slot each front()/pop() delivered, in
                            \*          order (0: a slot never constructed)
    woke_after_stop,        \* history: the worker's last wait returned after
                            \*          should_run_ was cleared
    runs,                   \* history: TaskRunner runs per source stem (up to 2)
    run_no                  \* history: the number of this run

vars ==
    << argv_threads, main_pc, nqueued, line_org, join_idx, n_threads, task_queue_,
       queu_updated_signal, take_from_queu_signal, queu_mutex, cache_mutex_,
       should_run_, wpc, task_def, fault, cache_exists, cache_file, outputs,
       dequeued, woke_after_stop, runs, run_no >>

mainVars == << argv_threads, main_pc, nqueued, line_org, join_idx, n_threads >>

workerVars == << wpc, task_def, woke_after_stop >>

fsVars == << fault, cache_exists, cache_file, outputs, runs >>

lockVars == << queu_updated_signal, take_from_queu_signal, queu_mutex, cache_mutex_ >>

\* The command-line thread counts tried: 0 stands for every count <= 0.
ThreadArgs == 0..MaxThreads

\* start saturates here: beyond the finish cursor of any run, so that the
\* queue reads as non-empty uninitialised memory from then on.
StartCap == MaxLines + 1

\* A process that has just been started, before main constructs the Processor.
ProcessStart ==
    /\ main_pc = "start"
    /\ nqueued = 0
    /\ line_org = <<>>
    /\ join_idx = 0
    /\ n_threads = 0
    /\ task_queue_ = [buf |-> <<>>, start |-> 0]
    /\ queu_updated_signal = 0
    /\ take_from_queu_signal = 1
    /\ queu_mutex = "free"
    /\ cache_mutex_ = 0
    /\ should_run_ = FALSE
    /\ wpc = [w \in Workers |-> "none"]
    /\ task_def = [w \in Workers |-> GarbageDef]
    /\ dequeued = <<>>
    /\ woke_after_stop = [w \in Workers |-> FALSE]

Init ==
    /\ ProcessStart
    /\ argv_threads \in ThreadArgs
    /\ fault \in Faults
    /\ cache_exists = FALSE
    /\ cache_file = <<>>
    /\ outputs = {}
    /\ runs = [s \in AllStems |-> 0]
    /\ run_no = 1

(***************************************************************************)
(* std::queue<TaskDef>                                                     *)
(***************************************************************************)
\* task_queue_.empty(): the two cursors are equal.
empty(q) == q.start = Len(q.buf)

\* The values task_queue_.front() can return: the slot at the start cursor if
\* push() constructed it, any of UninitDefs otherwise.
front(q) == IF q.start < Len(q.buf) THEN {q.buf[q.start + 1]} ELSE UninitDefs

\* task_queue_.pop(): the element at the start cursor, if there is one, is
\* destroyed and the cursor moves on, whether or not an element was there.
pop(q) ==
    [buf |-> [i \in 1..Len(q.buf) |-> IF i = q.start + 1 THEN GarbageDef ELSE q.buf[i]],
     start |-> Min(q.start + 1, StartCap)]

\* task_queue_.push(def): def is constructed at the finish cursor.
push(q, def) == [q EXCEPT !.buf = Append(q.buf, def)]

(***************************************************************************)
(* main and Processor::parseAndQueue                                       *)
(***************************************************************************)
\* Mutant: the count is used as it is given.
ThreadCount_NoDefault(n) == IF n <= 0 THEN 0 ELSE n

\* Processor::Processor: a count <= 0 becomes NUM_THREADS.
ThreadCount(n) == IF n <= 0 THEN NUM_THREADS ELSE n

\* Processor proc(threads): should_run_ is set and the threads are started.
M_Construct ==
    /\ main_pc = "start"
    /\ n_threads' = ThreadCount(argv_threads)
    /\ should_run_' = TRUE
    /\ wpc' = [w \in Workers |-> IF w <= ThreadCount(argv_threads) THEN "loop" ELSE "none"]
    /\ main_pc' = "getline"
    /\ UNCHANGED << argv_threads, nqueued, line_org, join_idx, task_queue_, lockVars,
                    task_def, fsVars, dequeued, woke_after_stop, run_no >>

\* while (!std::cin.eof()) { getline; if (!line.empty()) parseAndQueue(line); }
\* with the next line drawn from lineSet, or the end of the input.
M_GetLine(lineSet) ==
    /\ main_pc = "getline"
    /\ \/ /\ nqueued < MaxLines
          /\ \E line \in lineSet :
                IF line = <<>>
                THEN /\ main_pc' = "getline"
                     /\ UNCHANGED line_org
                ELSE /\ main_pc' = "parse"
                     /\ line_org' = line
       \/ /\ main_pc' = "drain"
          /\ UNCHANGED line_org
    /\ UNCHANGED << argv_threads, nqueued, join_idx, n_threads, task_queue_, lockVars,
                    should_run_, workerVars, fsVars, dequeued, run_no >>

\* parseAndQueue: if (parse(line_org, def)) ...; a line parse rejects is
\* reported on std::cerr.
M_Parse ==
    /\ main_pc = "parse"
    /\ main_pc' = IF parse(line_org) THEN "lock" ELSE "rejected"
    /\ UNCHANGED << argv_threads, nqueued, line_org, join_idx, n_threads, task_queue_,
                    lockVars, should_run_, workerVars, fsVars, dequeued, run_no >>

\* parse returned false: parseAndQueue returns without queueing anything.
M_Rejected ==
    /\ main_pc = "rejected"
    /\ main_pc' = "getline"
    /\ line_org' = <<>>
    /\ UNCHANGED << argv_threads, nqueued, join_idx, n_threads, task_queue_,
                    lockVars, should_run_, workerVars, fsVars, dequeued, run_no >>

\* std::lock_guard<std::mutex> lock(queu_mutex)
M_Lock ==
    /\ main_pc = "lock"
    /\ queu_mutex = "free"
    /\ queu_mutex' = "main"
    /\ main_pc' = "push"
    /\ UNCHANGED << argv_threads, nqueued, line_org, join_idx, n_threads, task_queue_,
                    queu_updated_signal, take_from_queu_signal, cache_mutex_,
                    should_run_, workerVars, fsVars, dequeued, run_no >>

\* task_queue_.push(def)
M_Push ==
    /\ main_pc = "push"
    /\ task_queue_' = push(task_queue_, parseDef(line_org))
    /\ nqueued' = nqueued + 1
    /\ main_pc' = "release"
    /\ UNCHANGED << argv_threads, line_org, join_idx, n_threads, lockVars,
                    should_run_, workerVars, fsVars, dequeued, run_no >>

\* queu_updated_signal.release()
M_Release ==
    /\ main_pc = "release"
    /\ queu_updated_signal' = queu_updated_signal + 1
    /\ main_pc' = "unlock"
    /\ UNCHANGED << argv_threads, nqueued, line_org, join_idx, n_threads, task_queue_,
                    take_from_queu_signal, queu_mutex, cache_mutex_,
                    should_run_, workerVars, fsVars, dequeued, run_no >>

\* the end of the lock_guard's block
M_Unlock ==
    /\ main_pc = "unlock"
    /\ queu_mutex' = "free"
    /\ main_pc' = "getline"
    /\ line_org' = <<>>
    /\ UNCHANGED << argv_threads, nqueued, join_idx, n_threads, task_queue_,
                    queu_updated_signal, take_from_queu_signal, cache_mutex_,
                    should_run_, workerVars, fsVars, dequeued, run_no >>

\* while (!proc.queueEmpty()) {};  the loop is left when the queue reads empty.
M_Drain ==
    /\ main_pc = "drain"
    /\ empty(task_queue_)
    /\ main_pc' = "stop"
    /\ UNCHANGED << argv_threads, nqueued, line_org, join_idx, n_threads, task_queue_,
                    lockVars, should_run_, workerVars, fsVars, dequeued, run_no >>

\* ~Processor: should_run_ = false
M_Stop ==
    /\ main_pc = "stop"
    /\ should_run_' = FALSE
    /\ join_idx' = 1
    /\ main_pc' = "join"
    /\ UNCHANGED << argv_threads, nqueued, line_org, n_threads, task_queue_,
                    lockVars, workerVars, fsVars, dequeued, run_no >>

\* Mutant: the destructor does not wait for the threads.
M_Join_NoWait ==
    /\ main_pc = "join"
    /\ IF join_idx <= n_threads
       THEN /\ join_idx' = join_idx + 1
            /\ main_pc' = "join"
       ELSE /\ main_pc' = "exited"
            /\ UNCHANGED join_idx
    /\ UNCHANGED << argv_threads, nqueued, line_org, n_threads, task_queue_,
                    lockVars, should_run_, workerVars, fsVars, dequeued, run_no >>

\* ~Processor: qthread.join() for each thread in turn, then main returns.
M_Join ==
    /\ main_pc = "join"
    /\ IF join_idx <= n_threads
       THEN /\ wpc[join_idx] = "exited"
            /\ join_idx' = join_idx + 1
            /\ main_pc' = "join"
       ELSE /\ main_pc' = "exited"
            /\ UNCHANGED join_idx
    /\ UNCHANGED << argv_threads, nqueued, line_org, n_threads, task_queue_,
                    lockVars, should_run_, workerVars, fsVars, dequeued, run_no >>

(***************************************************************************)
(* Processor::fileExistsInSubfolder and TaskRunner                         *)
(***************************************************************************)
\* Mutant: a stem that is not found is not written to the ledger.
fileExistsInSubfolder_NoRecord(base_name, flt, exists, text) ==
    LET stem == Stem(base_name)
    IN IF flt = "no_dir"
       THEN [ret |-> FALSE, exists |-> exists, text |-> text]
       ELSE IF ~exists /\ flt = "create_fails"
       THEN [ret |-> FALSE, exists |-> FALSE, text |-> text]
       ELSE IF flt = "read_fails"
       THEN [ret |-> FALSE, exists |-> TRUE, text |-> text]
       ELSE IF MatchFound(text, stem)
       THEN [ret |-> TRUE, exists |-> TRUE, text |-> text]
       ELSE [ret |-> FALSE, exists |-> TRUE, text |-> text]

\* Mutant: a ledger that cannot be read counts as a match.
fileExistsInSubfolder_ReadFailureSeen(base_name, flt, exists, text) ==
    LET stem == Stem(base_name)
    IN IF flt = "no_dir"
       THEN [ret |-> FALSE, exists |-> exists, text |-> text]
       ELSE IF ~exists /\ flt = "create_fails"
       THEN [ret |-> FALSE, exists |-> FALSE, text |-> text]
       ELSE IF flt = "read_fails"
       THEN [ret |-> TRUE, exists |-> TRUE, text |-> text]
       ELSE IF MatchFound(text, stem)
       THEN [ret |-> TRUE, exists |-> TRUE, text |-> text]
       ELSE IF flt = "append_fails"
       THEN [ret |-> FALSE, exists |-> TRUE, text |-> text]
       ELSE [ret |-> FALSE, exists |-> TRUE, text |-> AppendLine(text, stem)]

\* The body of fileExistsInSubfolder, run under cache_mutex_, on a ledger file
\* that exists or not and holds text: what it returns (ret) and what the file is
\* afterwards.
fileExistsInSubfolder(base_name, flt, exists, text) ==
    LET stem == Stem(base_name)
    IN IF flt = "no_dir"
       THEN [ret |-> FALSE, exists |-> exists, text |-> text]
       ELSE IF ~exists /\ flt = "create_fails"
       THEN [ret |-> FALSE, exists |-> FALSE, text |-> text]
       ELSE IF flt = "read_fails"
       THEN [ret |-> FALSE, exists |-> TRUE, text |-> text]
       ELSE IF MatchFound(text, stem)
       THEN [ret |-> TRUE, exists |-> TRUE, text |-> text]
       ELSE IF flt = "append_fails"
       THEN [ret |-> FALSE, exists |-> TRUE, text |-> text]
       ELSE [ret |-> FALSE, exists |-> TRUE, text |-> AppendLine(text, stem)]

\* Mutant: the output file is opened before the image is encoded.
TaskRunner_WritesBeforeEncode(def, load_ok, enc_ok, outs) ==
    IF def.fname_in # <<>> /\ load_ok
    THEN outs \cup {def.fname_out}
    ELSE outs

\* TaskRunner::operator(): the output files after a run on def. The source is
\* loaded (load_ok: nsvgParseFromFile did not return nullptr; the empty path
\* never loads), rastered, encoded (enc_ok: stbi_write_png_to_func did not
\* return 0) and written to fname_out; a failure is caught and logged, and
\* nothing is written.
TaskRunner(def, load_ok, enc_ok, outs) ==
    IF def.fname_in # <<>> /\ load_ok /\ enc_ok
    THEN outs \cup {def.fname_out}
    ELSE outs

(***************************************************************************)
(* Processor::processQueue, one worker w                                   *)
(***************************************************************************)
\* Mutant: the loop does not look at should_run_.
W_Loop_IgnoresFlag(w) ==
    /\ wpc[w] = "loop"
    /\ wpc' = [wpc EXCEPT ![w] = "wait"]
    /\ UNCHANGED << mainVars, task_queue_, lockVars, should_run_, task_def, fsVars,
                    dequeued, woke_after_stop, run_no >>

\* while (should_run_)
W_Loop(w) ==
    /\ wpc[w] = "loop"
    /\ wpc' = [wpc EXCEPT ![w] = IF should_run_ THEN "wait" ELSE "exited"]
    /\ UNCHANGED << mainVars, task_queue_, lockVars, should_run_, task_def, fsVars,
                    dequeued, woke_after_stop, run_no >>

\* queu_updated_signal.try_acquire_for(100ms): takes a permit if there is one,
\* times out otherwise; the result is not looked at.
W_Wait(w) ==
    /\ wpc[w] = "wait"
    /\ queu_updated_signal' = IF queu_updated_signal > 0
                              THEN queu_updated_signal - 1
                              ELSE queu_updated_signal
    /\ woke_after_stop' = [woke_after_stop EXCEPT ![w] = ~should_run_]
    /\ wpc' = [wpc EXCEPT ![w] = "check"]
    /\ UNCHANGED << mainVars, task_queue_, take_from_queu_signal, queu_mutex,
                    cache_mutex_, should_run_, task_def, fsVars, dequeued, run_no >>

\* if (!task_queue_.empty())
W_Check(w) ==
    /\ wpc[w] = "check"
    /\ wpc' = [wpc EXCEPT ![w] = IF empty(task_queue_) THEN "loop" ELSE "take"]
    /\ UNCHANGED << mainVars, task_queue_, lockVars, should_run_, task_def, fsVars,
                    dequeued, woke_after_stop, run_no >>

\* take_from_queu_signal.acquire()
W_Take(w) ==
    /\ wpc[w] = "take"
    /\ take_from_queu_signal = 1
    /\ take_from_queu_signal' = 0
    /\ wpc' = [wpc EXCEPT ![w] = "front"]
    /\ UNCHANGED << mainVars, task_queue_, queu_updated_signal, queu_mutex,
                    cache_mutex_, should_run_, task_def, fsVars, dequeued,
                    woke_after_stop, run_no >>

\* The slot front() reads: its index in buf, 0 if push() never constructed it.
FrontSlot(q) == IF q.start < Len(q.buf) THEN q.start + 1 ELSE 0

\* TaskDef task_def = task_queue_.front(); task_queue_.pop();
W_FrontPop(w) ==
    /\ wpc[w] = "front"
    /\ \E def \in front(task_queue_) :
          /\ task_def' = [task_def EXCEPT ![w] = def]
          /\ dequeued' = IF Len(dequeued) < StartCap
                         THEN Append(dequeued, FrontSlot(task_queue_))
                         ELSE dequeued
    /\ task_queue_' = pop(task_queue_)
    /\ wpc' = [wpc EXCEPT ![w] = "release"]
    /\ UNCHANGED << mainVars, lockVars, should_run_, fsVars, woke_after_stop, run_no >>

\* Mutant: the take token is not given back.
W_Release_KeepsToken(w) ==
    /\ wpc[w] = "release"
    /\ wpc' = [wpc EXCEPT ![w] = "cache_lock"]
    /\ UNCHANGED << mainVars, task_queue_, lockVars, should_run_, task_def, fsVars,
                    dequeued, woke_after_stop, run_no >>

\* take_from_queu_signal.release()
W_Release(w) ==
    /\ wpc[w] = "release"
    /\ take_from_queu_signal' = 1
    /\ wpc' = [wpc EXCEPT ![w] = "cache_lock"]
    /\ UNCHANGED << mainVars, task_queue_, queu_updated_signal, queu_mutex,
                    cache_mutex_, should_run_, task_def, fsVars, dequeued,
                    woke_after_stop, run_no >>

\* Mutant: fileExistsInSubfolder is entered without waiting for cache_mutex_.
W_CacheLock_NoMutex(w) ==
    /\ wpc[w] = "cache_lock"
    /\ cache_mutex_' = w
    /\ wpc' = [wpc EXCEPT ![w] = "cache"]
    /\ UNCHANGED << mainVars, task_queue_, queu_updated_signal, take_from_queu_signal,
                    queu_mutex, should_run_, task_def, fsVars, dequeued,
                    woke_after_stop, run_no >>

\* fileExistsInSubfolder: std::lock_guard<std::mutex> cache_lock(cache_mutex_)
W_CacheLock(w) ==
    /\ wpc[w] = "cache_lock"
    /\ cache_mutex_ = 0
    /\ cache_mutex_' = w
    /\ wpc' = [wpc EXCEPT ![w] = "cache"]
    /\ UNCHANGED << mainVars, task_queue_, queu_updated_signal, take_from_queu_signal,
                    queu_mutex, should_run_, task_def, fsVars, dequeued,
                    woke_after_stop, run_no >>

\* if (!fileExistsInSubfolder(task_def.fname_in, "output")): the body of the
\* function up to its return, which unlocks cache_mutex_; then the branch.
W_FileExists(w) ==
    /\ wpc[w] = "cache"
    /\ LET r == fileExistsInSubfolder(task_def[w].fname_in, fault,
                                      cache_exists, cache_file)
       IN /\ cache_exists' = r.exists
          /\ cache_file' = r.text
          /\ wpc' = [wpc EXCEPT ![w] = IF r.ret THEN "loop" ELSE "run"]
          /\ task_def' = IF r.ret THEN [task_def EXCEPT ![w] = GarbageDef] ELSE task_def
    /\ cache_mutex_' = 0
    /\ UNCHANGED << mainVars, task_queue_, queu_updated_signal, take_from_queu_signal,
                    queu_mutex, should_run_, fault, outputs, runs,
                    dequeued, woke_after_stop, run_no >>

\* TaskRunner runner(task_def); runner();
W_Run(w) ==
    /\ wpc[w] = "run"
    /\ outputs' = TaskRunner(task_def[w],
                              ~(fault = "load_fails" /\ task_def[w].fname_in = MissingSource),
                              fault # "encode_fails", outputs)
    /\ runs' = [runs EXCEPT ![Stem(task_def[w].fname_in)] = Min(@ + 1, 2)]
    /\ wpc' = [wpc EXCEPT ![w] = "loop"]
    /\ task_def' = [task_def EXCEPT ![w] = GarbageDef]
    /\ UNCHANGED << mainVars, task_queue_, lockVars, should_run_,
                    fault, cache_exists, cache_file, dequeued, woke_after_stop,
                    run_no >>

Worker(w) ==
    \/ W_Loop(w)
    \/ W_Wait(w)
    \/ W_Check(w)
    \/ W_Take(w)
    \/ W_FrontPop(w)
    \/ W_Release(w)
    \/ W_CacheLock(w)
    \/ W_FileExists(w)
    \/ W_Run(w)

(***************************************************************************)
(* The program run again over the same output directory                    *)
(***************************************************************************)
\* After main has returned the program is started again: a new process, the
\* files as the last one left them.
Restart ==
    /\ main_pc = "exited"
    /\ run_no < MaxRuns
    /\ run_no' = run_no + 1
    /\ argv_threads' \in ThreadArgs
    /\ main_pc' = "start"
    /\ line_org' = <<>>
    /\ join_idx' = 0
    /\ n_threads' = 0
    /\ task_queue_' = [buf |-> <<>>, start |-> 0]
    /\ queu_updated_signal' = 0
    /\ take_from_queu_signal' = 1
    /\ queu_mutex' = "free"
    /\ cache_mutex_' = 0
    /\ should_run_' = FALSE
    /\ wpc' = [w \in Workers |-> "none"]
    /\ task_def' = [w \in Workers |-> GarbageDef]
    /\ dequeued' = <<>>
    /\ woke_after_stop' = [w \in Workers |-> FALSE]
    /\ UNCHANGED << nqueued, fsVars >>

\* main, reading its lines from lineSet.
MainOn(lineSet) ==
    \/ M_Construct
    \/ M_GetLine(lineSet)
    \/ M_Parse
    \/ M_Rejected
    \/ M_Lock
    \/ M_Push
    \/ M_Release
    \/ M_Unlock
    \/ M_Drain
    \/ M_Stop
    \/ M_Join

Main == MainOn(Lines)

Next ==
    \/ Main
    \/ \E w \in Workers : Worker(w)
    \/ Restart

Spec == Init /\ [][Next]_vars

(***************************************************************************)
(* The parser on every short line: main alone, the workers not scheduled   *)
(***************************************************************************)
ParseInit ==
    /\ Init
    /\ argv_threads = NUM_THREADS
    /\ fault = "none"

ParseNext ==
    \/ M_Construct
    \/ M_GetLine(AllLines)
    \/ M_Parse
    \/ M_Rejected
    \/ M_Lock
    \/ M_Push
    \/ M_Release
    \/ M_Unlock

ParseSpec == ParseInit /\ [][ParseNext]_vars

(***************************************************************************)
(* One run of the program under a fair scheduler                           *)
(***************************************************************************)
\* Every thread that can take a step eventually takes one: the operating
\* system schedules each runnable thread, and a timed wait returns.
\* The input is the request a.s;x;1, repeated, and the one-field line b.
LiveLines == { <<"a", ".", "s", ";", "x", ";", "1">>, <<"b">> }

LiveMain == MainOn(LiveLines)

LiveNext ==
    \/ LiveMain
    \/ \E w \in Workers : Worker(w)

LiveSpec ==
    /\ Init
    /\ [][LiveNext]_vars
    /\ WF_vars(LiveMain)
    /\ \A w \in Workers : WF_vars(Worker(w))

(***************************************************************************)
(* One run of the program for every thread count of the command line       *)
(***************************************************************************)
\* atoi(argv[1]): negative, zero and positive counts.
PoolArgs == (0 - MaxThreads)..MaxThreads

PoolInit ==
    /\ ProcessStart
    /\ argv_threads \in PoolArgs
    /\ fault = "none"
    /\ cache_exists = FALSE
    /\ cache_file = <<>>
    /\ outputs = {}
    /\ runs = [s \in AllStems |-> 0]
    /\ run_no = 1

PoolSpec == PoolInit /\ [][LiveNext]_vars

(***************************************************************************)
(* Vocabulary of the properties                                            *)
(***************************************************************************)
\* The workers of this run.
Started == {w \in Workers : w <= n_threads}

AllExited == \A w \in Started : wpc[w] = "exited"

\* A worker is inside the front()/pop() section, holding the take token.
InPopSection(w) == wpc[w] = "front"

\* main is inside the push section, holding queu_mutex.
InPushSection == main_pc = "push"

\* Some request pushed in this run has not been dequeued.
Pending == \E k \in 1..Len(task_queue_.buf) : k \notin Range(dequeued)

\* The ledger text holds a line that is exactly s.
Recorded(s, text) ==
    \E i \in 1..Len(text) :
        /\ i = 1 \/ text[i - 1] = NL
        /\ i + Len(s) <= Len(text)
        /\ \A k \in 1..Len(s) : text[i + k - 1] = s[k]
        /\ text[i + Len(s)] = NL

\* The ledger can be read and written in this behaviour.
LedgerWorks == fault \in {"none", "load_fails", "encode_fails"}

\* The positions of the separator in a line, and its fields: field k lies
\* between the (k-1)-th and the k-th separator.
Seps(line) == {i \in 1..Len(line) : line[i] = ";"}

NumFields(line) == Cardinality(Seps(line)) + 1

SepPos(line, n) ==
    IF n = 0 THEN 0
    ELSE IF n > Cardinality(Seps(line)) THEN Len(line) + 1
    ELSE CHOOSE i \in Seps(line) : Cardinality({j \in Seps(line) : j < i}) = n - 1

Field(line, k) == SubSeq(line, SepPos(line, k - 1) + 1, SepPos(line, k) - 1)

\* No worker is between a dequeue and the end of its iteration.
WorkersIdle == \A w \in Started : wpc[w] \in {"loop", "wait", "check", "exited"}

StemA == <<"a">>

(***************************************************************************)
(* Queue properties                                                        *)
(***************************************************************************)
\* C1: FIFO dequeue order. With one producer and any number of workers, the
\* requests removed from the queue head are the pushed requests in push
\* order: the i-th front()/pop() of a run delivers the i-th pushed request.
C1_FifoDequeueOrder == \A i \in 1..Len(dequeued) : dequeued[i] = i

\* C2: one producer, many consumers. Every front()/pop() hands over a request
\* that was pushed, and no pushed request is handed over twice.
C2_DeliveredOncePushedOnly ==
    /\ \A i \in 1..Len(dequeued) : dequeued[i] # 0
    /\ \A i, j \in 1..Len(dequeued) : i # j => dequeued[i] # dequeued[j]

\* C3: push and pop are atomic with respect to each other. main is never in
\* the push section of parseAndQueue while a worker is in the front()/pop()
\* section of processQueue.
C3_PushPopExclusive == ~(InPushSection /\ \E w \in Started : InPopSection(w))

(***************************************************************************)
(* Shutdown properties                                                     *)
(***************************************************************************)
\* C6: every valid request is eventually processed. Under fair scheduling
\* every pushed request is eventually dequeued by some worker, and once the
\* input has ended the drain loop of main is eventually left.
C6_EveryRequestProcessed ==
    /\ Pending ~> ~Pending
    /\ (main_pc = "drain") ~> (main_pc = "stop")

\* C7: clean shutdown. Once ~Processor has cleared should_run_, a worker that
\* comes back to the head of its loop leaves processQueue, every worker
\* eventually has left, and main returns from the destructor only when every
\* worker has.
C7_CleanShutdown ==
    /\ [](main_pc = "exited" => AllExited)
    /\ (main_pc = "join") ~> AllExited
    /\ [][\A w \in Workers :
             (main_pc = "join" /\ wpc[w] = "loop" /\ wpc'[w] # "loop")
                => wpc'[w] = "exited"]_vars

\* Both workers of a two-worker pool were in an iteration when should_run_ was
\* cleared, and all have left.
C7_Witness ==
    /\ main_pc = "exited"
    /\ n_threads = 2
    /\ AllExited
    /\ Len(dequeued) = 2

\* C8: no new dequeue after shutdown. A worker whose wait returned after
\* should_run_ was cleared does not go on to take a request from the queue.
C8_NoDequeueAfterStop ==
    \A w \in Started : woke_after_stop[w] => wpc[w] \notin {"take", "front", "release"}

(***************************************************************************)
(* Ledger properties                                                       *)
(***************************************************************************)
\* C4: ledger check-and-record. With the scope directory present and no I/O
\* failure, a call of fileExistsInSubfolder whose stem is not in the ledger
\* returns false and leaves the stem in the ledger, a call whose stem is in the
\* ledger returns true, and a stem in the ledger stays there over every step,
\* the restart of the program included.
C4_LedgerCheckAndRecord ==
    [][/\ \A w \in Workers :
            (LedgerWorks /\ wpc[w] = "cache" /\ wpc'[w] # "cache") =>
               LET s == Stem(task_def[w].fname_in)
               IN IF Recorded(s, cache_file)
                  THEN wpc'[w] = "loop" /\ cache_file' = cache_file
                  ELSE wpc'[w] = "run" /\ Recorded(s, cache_file')
       /\ \A s \in AllStems : Recorded(s, cache_file) => Recorded(s, cache_file')
      ]_vars

\* The second run has dequeued one request and ended; with the request of the
\* first run that makes two requests of stem a, one TaskRunner run and one
\* ledger line: the call in the second run returned true.
C4_Witness ==
    /\ fault = "none"
    /\ run_no = 2
    /\ main_pc = "exited"
    /\ nqueued = 2
    /\ dequeued = <<1>>
    /\ cache_file = <<"a", NL>>
    /\ runs = [s \in AllStems |-> IF s = StemA THEN 1 ELSE 0]

\* C5: at most one conversion per source identity. With the scope directory
\* present and no ledger I/O failure, for every stem the TaskRunner runs
\* decided so far (done, or about to start) number one if a request of that
\* stem has been through the dedup check, and none otherwise: one of the
\* requests that share a stem is converted, every other one is skipped.
C5_OneConversionPerIdentity ==
    LedgerWorks =>
        \A s \in AllStems :
            runs[s] + Cardinality({w \in Started :
                                      wpc[w] = "run" /\ Stem(task_def[w].fname_in) = s})
               = (IF Recorded(s, cache_file) THEN 1 ELSE 0)

\* Two workers have dequeued and handled two pushed requests of stem a in one
\* run, and TaskRunner ran once.
C5_Witness ==
    /\ fault = "none"
    /\ run_no = 1
    /\ n_threads = 2
    /\ dequeued = <<1, 2>>
    /\ WorkersIdle
    /\ cache_file = <<"a", NL>>
    /\ runs = [s \in AllStems |-> IF s = StemA THEN 1 ELSE 0]

(***************************************************************************)
(* Parser properties                                                       *)
(***************************************************************************)
\* C9: parser acceptance. For a line of at least three fields parse returns
\* true, and parseAndQueue appends to the back of the queue exactly one
\* request: source = field 1, destination = field 2, size = atoi(field 3),
\* whatever follows the third field; its other steps leave the queue alone.
C9_ParserAcceptance ==
    [][/\ (main_pc = "parse" /\ main_pc' # "parse" /\ NumFields(line_org) >= 3)
            => (main_pc' = "lock" /\ line_org' = line_org /\ task_queue_' = task_queue_)
       /\ (main_pc = "push" /\ main_pc' # "push")
            => /\ NumFields(line_org) >= 3
               /\ task_queue_' =
                     [task_queue_ EXCEPT !.buf =
                         Append(@, [fname_in |-> Field(line_org, 1),
                                    fname_out |-> Field(line_org, 2),
                                    size |-> atoi(Field(line_org, 3))])]
       /\ (main_pc \in {"lock", "release", "unlock"} /\ main_pc' # main_pc)
            => task_queue_' = task_queue_
      ]_vars

\* A line with more than three fields has been pushed behind an earlier request.
C9_Witness ==
    /\ main_pc = "release"
    /\ NumFields(line_org) > 3
    /\ Len(task_queue_.buf) = 2
    /\ task_queue_.buf[2].fname_in = Field(line_org, 1)

\* C10: parser rejection. For a line of fewer than three fields parse returns
\* false, and parseAndQueue returns with the queue and the wake semaphore as
\* they were.
C10_ParserRejection ==
    [][/\ (main_pc = "parse" /\ main_pc' # "parse" /\ NumFields(line_org) < 3)
            => /\ main_pc' = "rejected"
               /\ UNCHANGED << task_queue_, queu_updated_signal >>
       /\ (main_pc = "rejected" /\ main_pc' # "rejected")
            => /\ main_pc' = "getline"
               /\ UNCHANGED << task_queue_, queu_updated_signal >>
      ]_vars

\* A two-field line has been rejected while a request was in the queue.
C10_Witness ==
    /\ main_pc = "rejected"
    /\ NumFields(line_org) = 2
    /\ Len(task_queue_.buf) = 1
    /\ queu_updated_signal = 1

(***************************************************************************)
(* Failure properties                                                      *)
(***************************************************************************)
\* The scope directory is missing, or the ledger file cannot be created, read
\* or appended to.
LedgerFails == fault \in {"no_dir", "create_fails", "read_fails", "append_fails"}

\* TaskRunner on def fails to load the source or to encode the image.
ConversionFails(def) ==
    \/ def.fname_in = <<>>
    \/ fault = "load_fails" /\ def.fname_in = MissingSource
    \/ fault = "encode_fails"

IsPrefix(s, t) == Len(s) <= Len(t) /\ SubSeq(t, 1, Len(s)) = s

\* C11: a ledger failure degrades to "not seen". When the scope directory is
\* missing or the ledger cannot be created, read or appended to, the call of
\* fileExistsInSubfolder returns false with the mutex released, the worker runs
\* TaskRunner on the request it dequeued and comes back to the head of its
\* loop; a worker leaves processQueue only on a cleared should_run_.
C11_LedgerFailureNotSeen ==
    [][\A w \in Workers :
          /\ (LedgerFails /\ wpc[w] = "cache" /\ wpc'[w] # "cache")
                => /\ wpc'[w] = "run"
                   /\ task_def'[w] = task_def[w]
                   /\ cache_mutex_' = 0
          /\ (LedgerFails /\ wpc[w] = "run" /\ wpc'[w] # "run")
                => /\ wpc'[w] = "loop"
                   /\ runs'[Stem(task_def[w].fname_in)]
                         = Min(runs[Stem(task_def[w].fname_in)] + 1, 2)
          /\ (wpc[w] # "exited" /\ wpc'[w] = "exited")
                => (wpc[w] = "loop" /\ ~should_run_)
      ]_vars

\* The ledger file could not be created, both requests of stem a went through
\* TaskRunner, and a worker is waiting again.
C11_Witness ==
    /\ fault = "create_fails"
    /\ ~cache_exists
    /\ run_no = 1
    /\ runs[StemA] = 2
    /\ should_run_
    /\ \E w \in Started : wpc[w] = "wait"

\* C12: a conversion failure is isolated to its request. A TaskRunner run
\* whose source does not load or whose image does not encode leaves every
\* output file as it was, and the worker comes back to the head of its loop
\* holding no lock, the running flag and the queue untouched.
C12_ConversionFailureIsolated ==
    [][\A w \in Workers :
          (wpc[w] = "run" /\ wpc'[w] # "run" /\ ConversionFails(task_def[w]))
             => /\ outputs' = outputs
                /\ wpc'[w] = "loop"
                /\ cache_mutex_ # w
                /\ UNCHANGED << lockVars, should_run_, task_queue_ >>
      ]_vars

\* The one worker failed on a.s, then dequeued the next request and brought it
\* to the dedup check; no output file exists.
C12_Witness ==
    /\ fault = "load_fails"
    /\ n_threads = 1
    /\ run_no = 1
    /\ dequeued = <<1, 2>>
    /\ WorkersIdle
    /\ runs[StemA] = 1
    /\ outputs = {}

\* C13: the ledger is append-only. Over every step, the restart of the
\* program included, the old text of the ledger is a prefix of the new one, an
\* existing ledger file still exists, and its old lines are the first lines
\* of the new file, in the same order.
C13_LedgerAppendOnly ==
    [][/\ IsPrefix(cache_file, cache_file')
       /\ cache_exists => cache_exists'
       /\ IsPrefix(FileLines(cache_file), FileLines(cache_file'))
      ]_vars

\* The ledger of an earlier run holds two lines.
C13_Witness ==
    /\ run_no = 2
    /\ Len(FileLines(cache_file)) = 2
    /\ main_pc = "exited"

(***************************************************************************)
(* Pool and lock properties                                                *)
(***************************************************************************)
\* The threads that have been started in this run.
Running == {w \in Workers : wpc[w] # "none"}

\* C14: pool construction. Once the constructor has returned, exactly n
\* worker threads have been started when the requested count n is positive,
\* and exactly NUM_THREADS when it is zero or negative.
C14_PoolSize ==
    main_pc # "start" =>
        Cardinality(Running) = (IF argv_threads >= 1 THEN argv_threads ELSE NUM_THREADS)

\* A negative count was asked for; one thread runs and the other does not.
C14_Witness ==
    /\ argv_threads < 0
    /\ main_pc = "getline"
    /\ Running = {1}
    /\ wpc[1] = "loop"

\* C15: the unlocked emptiness check is benign. A worker that holds the take
\* token and is about to execute front()/pop() finds an element at the start
\* cursor of the queue.
C15_NoPopFromEmpty ==
    \A w \in Started : wpc[w] = "front" => task_queue_.start < Len(task_queue_.buf)

\* C16: ledger operations are serialized. At most one worker is inside
\* fileExistsInSubfolder past its lock_guard, and that worker owns cache_mutex_.
C16_LedgerSerialized ==
    /\ Cardinality({w \in Workers : wpc[w] = "cache"}) <= 1
    /\ \A w \in Workers : wpc[w] = "cache" <=> cache_mutex_ = w

\* One worker is inside fileExistsInSubfolder while the other waits for the
\* mutex.
C16_Witness ==
    /\ n_threads = 2
    /\ wpc[1] = "cache"
    /\ wpc[2] = "cache_lock"
    /\ cache_mutex_ = 1

\* A worker is between the emptiness test that sent it to dequeue and the end
\* of its iteration.
InFlight(w) == wpc[w] \in {"take", "front", "release", "cache_lock", "cache", "run"}

\* C17: no work is in flight at process exit. When main has returned from the
\* destructor no worker is inside an iteration: every request that was
\* dequeued has been skipped by the dedup check or its TaskRunner has returned.
C17_NoWorkInFlightAtExit ==
    main_pc = "exited" =>
        \A w \in Workers : ~InFlight(w) /\ task_def[w] = GarbageDef

\* The process has ended after two workers dequeued two requests.
C17_Witness ==
    /\ main_pc = "exited"
    /\ n_threads = 2
    /\ dequeued = <<1, 2>>
    /\ fault = "none"
    /\ runs[StemA] = 1
    /\ run_no = 1

\* Not an invariant: main leaves the drain loop on an empty queue while a
\* worker is still converting the request it dequeued.
DrainedMeansIdle == main_pc = "stop" => \A w \in Workers : ~InFlight(w)

\* The values a worker can find in task_def after a dequeue.
AllDefs == UninitDefs \cup {parseDef(l) : l \in {x \in Lines : parse(x)}}

\* The destination paths of the requests whose source has stem s.
OutputsOf == [s \in AllStems |-> {d.fname_out : d \in {e \in AllDefs : Stem(e.fname_in) = s}}]

\* C18: a failed conversion is not retried. With a working ledger the stem of
\* a request is in the ledger when its TaskRunner starts, and once a stem has
\* had a TaskRunner run that produced no output file, the stem stays in the
\* ledger, a later request of that stem is skipped, no TaskRunner runs for it
\* again and none of its destination files appears, in this run or a later one.
C18_FailedSourceNotRetried ==
    [][LedgerWorks =>
          /\ \A w \in Workers :
                wpc'[w] = "run" => Recorded(Stem(task_def'[w].fname_in), cache_file')
          /\ \A s \in AllStems :
                (runs[s] >= 1 /\ OutputsOf[s] \cap outputs = {})
                   => /\ runs'[s] = runs[s]
                      /\ OutputsOf[s] \cap outputs' = {}
                      /\ Recorded(s, cache_file')
                      /\ \A w \in Workers :
                            (wpc[w] = "cache" /\ wpc'[w] # "cache"
                               /\ Stem(task_def[w].fname_in) = s) => wpc'[w] = "loop"
      ]_vars

\* The conversion of a.s failed in the first run; in the second run the
\* request d/a.t;y;2, whose source loads, is at the dedup check.
C18_Witness ==
    /\ fault = "load_fails"
    /\ run_no = 2
    /\ runs[StemA] = 1
    /\ outputs = {}
    /\ \E w \in Started :
          /\ wpc[w] = "cache"
          /\ task_def[w].fname_out = <<"y">>

\* The locks of the three kinds a thread holds.
LocksHeld(w) ==
    (IF wpc[w] \in {"front", "release"} THEN 1 ELSE 0) + (IF cache_mutex_ = w THEN 1 ELSE 0)

\* C19: the lock protocol is deadlock-free. A worker holds at most one of the
\* take token and the ledger mutex, and never the queue mutex, which only main
\* holds, and only inside the push section; a lock is taken exactly while its
\* holder is in the section it guards; and while should_run_ is set some
\* worker can take a step.
C19_DeadlockFree ==
    /\ \A w \in Workers : LocksHeld(w) <= 1
    /\ queu_mutex = "main" <=> main_pc \in {"push", "release", "unlock"}
    /\ take_from_queu_signal = 0 <=> \E w \in Workers : wpc[w] \in {"front", "release"}
    /\ cache_mutex_ # 0 <=> \E w \in Workers : wpc[w] = "cache"
    /\ should_run_ => \E w \in Started : ENABLED Worker(w)

\* One worker waits for the take token that the other one holds.
C19_Witness ==
    /\ should_run_
    /\ wpc[1] = "take"
    /\ wpc[2] = "front"
    /\ take_from_queu_signal = 0

\* The sources of the two requests of Lines: the same stem a, in different
\* directories and with different extensions; their requests differ in the
\* destination path (x, y) and in the size (1, 2).
SourceOne == <<"a", ".", "s">>

SourceTwo == <<"d", "/", "a", ".", "t">>

\* C20: the skip decision depends on the stem and the ledger only. In every
\* state fileExistsInSubfolder gives the same result, ledger included, for the
\* two sources of stem a, and with a working ledger the destination file of at
\* most one of the two requests exists: the one that reached the dedup check
\* first was converted, the other's destination is not produced.
C20_SkipByStemOnly ==
    /\ fileExistsInSubfolder(SourceOne, fault, cache_exists, cache_file)
          = fileExistsInSubfolder(SourceTwo, fault, cache_exists, cache_file)
    /\ LedgerWorks => ~(<<"x">> \in outputs /\ <<"y">> \in outputs)

\* d/a.t;y;2 reached the dedup check first and was converted; a.s;x;1 was
\* dequeued and skipped.
C20_Witness ==
    /\ fault = "none"
    /\ run_no = 1
    /\ dequeued = <<1, 2>>
    /\ WorkersIdle
    /\ outputs = {<<"y">>}
    /\ runs[StemA] = 1

====
